---- MODULE Spec2Model ----
(***************************************************************************)
(* A model of the thread-safe doubly linked list of src/src/list.rs and    *)
(* src/src/node.rs.  Every mutex acquisition and release of the code is a  *)
(* step of its own; reads and writes of data guarded by a mutex are merged *)
(* into the step that acquires or releases that mutex.                     *)
(***************************************************************************)
EXTENDS Integers, Sequences, FiniteSets, TLC

\* ------------------------------------------------------------------ bounds
\* threads there are, and threads that call operations in the runs that
\* draw their calls freely
MaxThreads == 3
MaxCallers == 2
MaxNodes == 5
MaxOps == 4
MaxSplices == 3
MaxVal == 2
\* nodes of the chain the node-level runs start from
InitLen == 3

Nil == 0
None == 0
Threads == 1 .. MaxThreads
Callers == 1 .. MaxCallers
Nodes == 1 .. MaxNodes
Values == 1 .. MaxVal

VARIABLES
    procs,   \* the threads that run operations in this behaviour
    head,    \* LinkedList.head : the node in the cell, or Nil
    tail,    \* LinkedList.tail
    hlock,   \* owner of the head cell's mutex, 0 when free
    tlock,   \* owner of the tail cell's mutex
    left,    \* Routes.left of every node
    right,   \* Routes.right of every node
    rlock,   \* owner of every node's routes mutex
    value,   \* Node.value of every node
    nalloc,  \* number of nodes handed out so far
    pc,      \* position of every thread
    op,      \* the public operation a thread is running
    self,    \* the node a thread's node operation runs on
    lf,      \* local: the left neighbour whose guard the thread holds
    rt,      \* local: the right neighbour taken from self's routes
    mid,     \* local: the node being inserted
    ret,     \* local: the value being returned
    hist,    \* per thread, the operations that have returned
    crash    \* "none", or how the process died

vars == <<procs, head, tail, hlock, tlock, left, right, rlock, value, nalloc,
          pc, op, self, lf, rt, mid, ret, hist, crash>>
cells == <<head, tail, hlock, tlock>>
chain == <<left, right, rlock>>
locals == <<op, self, lf, rt, mid, ret>>

ListOps == {"push_front", "push_back", "pop_front", "pop_back", "head", "tail"}

\* ------------------------------------------------------------ constructors
\* LinkedList::new : both cells hold None
InitCommon ==
    /\ head = Nil /\ tail = Nil /\ hlock = 0 /\ tlock = 0
    /\ rlock = [n \in Nodes |-> 0]
    /\ pc = [t \in Threads |-> "idle"]
    /\ op = [t \in Threads |-> "none"]
    /\ self = [t \in Threads |-> Nil]
    /\ lf = [t \in Threads |-> Nil]
    /\ rt = [t \in Threads |-> Nil]
    /\ mid = [t \in Threads |-> Nil]
    /\ ret = [t \in Threads |-> None]
    /\ hist = [t \in Threads |-> <<>>]
    /\ crash = "none"

Init ==
    /\ InitCommon
    /\ procs = Callers
    /\ left = [n \in Nodes |-> Nil]
    /\ right = [n \in Nodes |-> Nil]
    /\ value = [n \in Nodes |-> None]
    /\ nalloc = 0

\* --------------------------------------------------------- call and return
\* operations called so far, returned or not
RECURSIVE Returned(_)
Returned(T) ==
    IF T = {} THEN 0
    ELSE LET t == CHOOSE u \in T : TRUE IN Len(hist[t]) + Returned(T \ {t})
Called == Returned(Threads) + Cardinality({t \in Threads : pc[t] \notin {"idle", "dead"}})

Call(t, o, n) ==
    /\ pc[t] = "idle" /\ t \in procs
    /\ Called < (IF o \in ListOps THEN MaxOps ELSE MaxSplices)
    /\ op' = [op EXCEPT ![t] = o]
    /\ self' = [self EXCEPT ![t] = n]

\* a pushing or inserting call takes the next unused node for its new node
CallNew(t, o, n, v, first) ==
    /\ Call(t, o, n)
    /\ nalloc < MaxNodes
    /\ nalloc' = nalloc + 1
    /\ mid' = [mid EXCEPT ![t] = nalloc + 1]
    /\ value' = [value EXCEPT ![nalloc + 1] = v]
    /\ pc' = [pc EXCEPT ![t] = first]
    /\ UNCHANGED <<procs, cells, chain, lf, rt, ret, hist, crash>>

CallOld(t, o, n, first) ==
    /\ Call(t, o, n)
    /\ pc' = [pc EXCEPT ![t] = first]
    /\ UNCHANGED <<procs, cells, chain, value, nalloc, lf, rt, mid, ret, hist, crash>>

\* the operation returns: arg is the node a splice was called on, node is
\* the node handed back (push, insert) or the node whose value is handed
\* back (pop, insulate), val is that value
Return(t, arg, node, val) ==
    /\ hist' = [hist EXCEPT ![t] =
                  Append(@, [op |-> op[t], arg |-> arg, node |-> node, ret |-> val])]
    /\ pc' = [pc EXCEPT ![t] = "idle"]
    /\ op' = [op EXCEPT ![t] = "none"]
    /\ self' = [self EXCEPT ![t] = Nil]
    /\ lf' = [lf EXCEPT ![t] = Nil]
    /\ rt' = [rt EXCEPT ![t] = Nil]
    /\ mid' = [mid EXCEPT ![t] = Nil]
    /\ ret' = [ret EXCEPT ![t] = None]

\* where a node operation continues in its caller
AfterNodeOp(o) ==
    CASE o = "push_front" -> "pf_ret"
      [] o = "push_back" -> "pb_ret"
      [] o = "pop_front" -> "po_ret"
      [] o = "pop_back" -> "pk_after"

\* a mutex whose holder panicked: it is free, and lock() and try_lock()
\* on it give Err(Poisoned)
Poisoned == -1

\* thread t panics: unwinding drops the guards it holds, which poisons
\* their mutexes; the thread is gone
Panic(t) ==
    /\ pc' = [pc EXCEPT ![t] = "panicked"]
    /\ rlock' = [n \in Nodes |-> IF rlock[n] = t THEN Poisoned ELSE rlock[n]]
    /\ hlock' = IF hlock = t THEN Poisoned ELSE hlock
    /\ tlock' = IF tlock = t THEN Poisoned ELSE tlock
    /\ UNCHANGED <<procs, head, tail, left, right, value, nalloc, locals, hist, crash>>

\* ------------------------------------------------------------- node.rs
\* the last step of a node operation: release self's routes and hand the
\* result to the caller (a list operation), or return (a direct call)
LeaveNodeOp(t, node) ==
    /\ IF op[t] \in ListOps
       THEN /\ pc' = [pc EXCEPT ![t] = AfterNodeOp(op[t])]
            /\ UNCHANGED <<locals, hist>>
       ELSE Return(t, self[t], node, value[node])
    /\ UNCHANGED <<procs, cells, value, nalloc, crash>>

\* Node::insert_left, `self.routes.lock()`
InsertLeftLock(t) ==
    /\ pc[t] = "il_lock"
    /\ rlock[self[t]] = 0
    /\ rlock' = [rlock EXCEPT ![self[t]] = t]
    /\ pc' = [pc EXCEPT ![t] = "il_try"]
    /\ UNCHANGED <<procs, cells, left, right, value, nalloc, locals, hist, crash>>

\* InsertLeftTry with the retry keeping self's guard: a failed try_lock
\* starts over without releasing self's routes
InsertLeftTryKeepsGuard(t) ==
    /\ pc[t] = "il_try"
    /\ LET s == self[t]
           l == left[s]
           m == mid[t]
       IN  IF l = Nil
           THEN /\ left' = [left EXCEPT ![s] = m, ![m] = Nil]
                /\ right' = [right EXCEPT ![m] = s]
                /\ rlock' = rlock
                /\ lf' = lf
                /\ pc' = [pc EXCEPT ![t] = "il_rel_self"]
           ELSE IF rlock[l] = 0
           THEN /\ left' = [left EXCEPT ![s] = m, ![m] = l]
                /\ right' = [right EXCEPT ![l] = m, ![m] = s]
                /\ rlock' = [rlock EXCEPT ![l] = t]
                /\ lf' = [lf EXCEPT ![t] = l]
                /\ pc' = [pc EXCEPT ![t] = "il_rel_left"]
           ELSE /\ pc' = [pc EXCEPT ![t] = "il_lock"]
                /\ UNCHANGED <<left, right, lf, rlock>>
    /\ UNCHANGED <<procs, cells, value, nalloc, op, self, rt, mid, ret, hist, crash>>

\* InsertLeftTry without the left guard: the left neighbour's right is
\* written without taking the neighbour's routes mutex
InsertLeftTryNoLeftGuard(t) ==
    /\ pc[t] = "il_try"
    /\ LET s == self[t]
           l == left[s]
           m == mid[t]
       IN  /\ left' = [left EXCEPT ![s] = m, ![m] = l]
           /\ right' = IF l = Nil THEN [right EXCEPT ![m] = s]
                                  ELSE [right EXCEPT ![l] = m, ![m] = s]
    /\ pc' = [pc EXCEPT ![t] = "il_rel_self"]
    /\ UNCHANGED <<procs, cells, rlock, value, nalloc, locals, hist, crash>>

\* Node::insert_left, the body of the loop once self's routes are locked:
\* no left neighbour: link mid before self; left neighbour whose try_lock
\* succeeds: link mid between the two; try_lock fails, `Err(_)`, be it
\* WouldBlock or Poisoned: put left back, drop self's guard and start over
InsertLeftTry(t) ==
    /\ pc[t] = "il_try"
    /\ LET s == self[t]
           l == left[s]
           m == mid[t]
       IN  IF l = Nil
           THEN /\ left' = [left EXCEPT ![s] = m, ![m] = Nil]
                /\ right' = [right EXCEPT ![m] = s]
                /\ rlock' = rlock
                /\ lf' = lf
                /\ pc' = [pc EXCEPT ![t] = "il_rel_self"]
           ELSE IF rlock[l] = 0
           THEN /\ left' = [left EXCEPT ![s] = m, ![m] = l]
                /\ right' = [right EXCEPT ![l] = m, ![m] = s]
                /\ rlock' = [rlock EXCEPT ![l] = t]
                /\ lf' = [lf EXCEPT ![t] = l]
                /\ pc' = [pc EXCEPT ![t] = "il_rel_left"]
           ELSE /\ rlock' = [rlock EXCEPT ![s] = 0]
                /\ pc' = [pc EXCEPT ![t] = "il_lock"]
                /\ UNCHANGED <<left, right, lf>>
    /\ UNCHANGED <<procs, cells, value, nalloc, op, self, rt, mid, ret, hist, crash>>

\* Node::insert_left, left_routes goes out of scope
InsertLeftRelLeft(t) ==
    /\ pc[t] = "il_rel_left"
    /\ rlock' = [rlock EXCEPT ![lf[t]] = 0]
    /\ pc' = [pc EXCEPT ![t] = "il_rel_self"]
    /\ UNCHANGED <<procs, cells, left, right, value, nalloc, locals, hist, crash>>

\* Node::insert_left, `break mid` drops self_routes
InsertLeftRelSelf(t) ==
    /\ pc[t] = "il_rel_self"
    /\ rlock' = [rlock EXCEPT ![self[t]] = 0]
    /\ UNCHANGED <<left, right>>
    /\ LeaveNodeOp(t, mid[t])

\* Node::insert_right, `self.routes.lock()` and `self_routes.right.take()`
InsertRightLock(t) ==
    /\ pc[t] = "ir_lock"
    /\ rlock[self[t]] = 0
    /\ rlock' = [rlock EXCEPT ![self[t]] = t]
    /\ LET s == self[t]
           r == right[s]
           m == mid[t]
       IN  IF r = Nil
           THEN /\ right' = [right EXCEPT ![s] = m, ![m] = Nil]
                /\ left' = [left EXCEPT ![m] = s]
                /\ rt' = rt
                /\ pc' = [pc EXCEPT ![t] = "ir_rel_self"]
           ELSE /\ right' = [right EXCEPT ![s] = Nil]
                /\ left' = left
                /\ rt' = [rt EXCEPT ![t] = r]
                /\ pc' = [pc EXCEPT ![t] = "ir_lock_right"]
    /\ UNCHANGED <<procs, cells, value, nalloc, op, self, lf, mid, ret, hist, crash>>

\* Node::insert_right, `right.routes.lock()` (blocking) and the relinking
InsertRightLockRight(t) ==
    /\ pc[t] = "ir_lock_right"
    /\ rlock[rt[t]] = 0
    /\ rlock' = [rlock EXCEPT ![rt[t]] = t]
    /\ LET s == self[t]
           r == rt[t]
           m == mid[t]
       IN  /\ right' = [right EXCEPT ![s] = m, ![m] = r]
           /\ left' = [left EXCEPT ![r] = m, ![m] = s]
    /\ pc' = [pc EXCEPT ![t] = "ir_rel_right"]
    /\ UNCHANGED <<procs, cells, value, nalloc, locals, hist, crash>>

\* Node::insert_right, right_routes goes out of scope
InsertRightRelRight(t) ==
    /\ pc[t] = "ir_rel_right"
    /\ rlock' = [rlock EXCEPT ![rt[t]] = 0]
    /\ pc' = [pc EXCEPT ![t] = "ir_rel_self"]
    /\ UNCHANGED <<procs, cells, left, right, value, nalloc, locals, hist, crash>>

\* Node::insert_right, self_routes goes out of scope
InsertRightRelSelf(t) ==
    /\ pc[t] = "ir_rel_self"
    /\ rlock' = [rlock EXCEPT ![self[t]] = 0]
    /\ UNCHANGED <<left, right>>
    /\ LeaveNodeOp(t, mid[t])

\* Node::insulate_left, `self.routes.lock()`
InsulateLeftLock(t) ==
    /\ pc[t] = "sl_lock"
    /\ rlock[self[t]] = 0
    /\ rlock' = [rlock EXCEPT ![self[t]] = t]
    /\ pc' = [pc EXCEPT ![t] = "sl_try"]
    /\ UNCHANGED <<procs, cells, left, right, value, nalloc, locals, hist, crash>>

\* Node::insulate_left, the body of the loop: try_lock!(left.routes) and
\* `left_routes.right = self_routes.right.clone()`; try_lock! panics on a
\* poisoned mutex and starts the loop over on WouldBlock
InsulateLeftTry(t) ==
    /\ pc[t] = "sl_try"
    /\ LET s == self[t]
           l == left[s]
       IN  IF l # Nil /\ rlock[l] = Poisoned
           THEN Panic(t)
           ELSE /\ IF l = Nil
                   THEN /\ pc' = [pc EXCEPT ![t] = "sl_rel_self"]
                        /\ UNCHANGED <<right, rlock, lf>>
                   ELSE IF rlock[l] = 0
                   THEN /\ right' = [right EXCEPT ![l] = right[s]]
                        /\ rlock' = [rlock EXCEPT ![l] = t]
                        /\ lf' = [lf EXCEPT ![t] = l]
                        /\ pc' = [pc EXCEPT ![t] = "sl_rel_left"]
                   ELSE /\ rlock' = [rlock EXCEPT ![s] = 0]
                        /\ pc' = [pc EXCEPT ![t] = "sl_lock"]
                        /\ UNCHANGED <<right, lf>>
                /\ UNCHANGED <<procs, cells, left, value, nalloc, op, self, rt, mid, ret,
                               hist, crash>>

\* Node::insulate_left, left_routes goes out of scope
InsulateLeftRelLeft(t) ==
    /\ pc[t] = "sl_rel_left"
    /\ rlock' = [rlock EXCEPT ![lf[t]] = 0]
    /\ pc' = [pc EXCEPT ![t] = "sl_rel_self"]
    /\ UNCHANGED <<procs, cells, left, right, value, nalloc, locals, hist, crash>>

\* InsulateLeftRelSelf without the take(): self keeps its left neighbour
InsulateLeftRelSelfKeepsLeft(t) ==
    /\ pc[t] = "sl_rel_self"
    /\ rlock' = [rlock EXCEPT ![self[t]] = 0]
    /\ UNCHANGED <<left, right>>
    /\ LeaveNodeOp(t, self[t])

\* Node::insulate_left, `break (&self.value, self_routes.left.take())`;
\* the former left neighbour is handed back in lf
InsulateLeftRelSelf(t) ==
    /\ pc[t] = "sl_rel_self"
    /\ left' = [left EXCEPT ![self[t]] = Nil]
    /\ rlock' = [rlock EXCEPT ![self[t]] = 0]
    /\ right' = right
    /\ LeaveNodeOp(t, self[t])

\* Node::insulate_right, `self.routes.lock()` and the test of self's right
InsulateRightLock(t) ==
    /\ pc[t] = "sr_lock"
    /\ rlock[self[t]] = 0
    /\ rlock' = [rlock EXCEPT ![self[t]] = t]
    /\ rt' = [rt EXCEPT ![t] = right[self[t]]]
    /\ pc' = [pc EXCEPT ![t] = IF right[self[t]] = Nil THEN "sr_rel_self" ELSE "sr_lock_right"]
    /\ UNCHANGED <<procs, cells, left, right, value, nalloc, op, self, lf, mid, ret, hist, crash>>

\* InsulateRightLockRight without the store: the right neighbour keeps
\* its left
InsulateRightLockRightKeepsLeft(t) ==
    /\ pc[t] = "sr_lock_right"
    /\ rlock[rt[t]] = 0
    /\ rlock' = [rlock EXCEPT ![rt[t]] = t]
    /\ pc' = [pc EXCEPT ![t] = "sr_rel_right"]
    /\ UNCHANGED <<procs, cells, left, right, value, nalloc, locals, hist, crash>>

\* Node::insulate_right, `right.routes.lock()` (blocking) and
\* `right_routes.left = self_routes.left.clone()`
InsulateRightLockRight(t) ==
    /\ pc[t] = "sr_lock_right"
    /\ rlock[rt[t]] = 0
    /\ rlock' = [rlock EXCEPT ![rt[t]] = t]
    /\ left' = [left EXCEPT ![rt[t]] = left[self[t]]]
    /\ pc' = [pc EXCEPT ![t] = "sr_rel_right"]
    /\ UNCHANGED <<procs, cells, right, value, nalloc, locals, hist, crash>>

\* Node::insulate_right, right_routes goes out of scope
InsulateRightRelRight(t) ==
    /\ pc[t] = "sr_rel_right"
    /\ rlock' = [rlock EXCEPT ![rt[t]] = 0]
    /\ pc' = [pc EXCEPT ![t] = "sr_rel_self"]
    /\ UNCHANGED <<procs, cells, left, right, value, nalloc, locals, hist, crash>>

\* Node::insulate_right, `(&self.value, self_routes.right.take())`;
\* the former right neighbour is handed back in rt
InsulateRightRelSelf(t) ==
    /\ pc[t] = "sr_rel_self"
    /\ right' = [right EXCEPT ![self[t]] = Nil]
    /\ rlock' = [rlock EXCEPT ![self[t]] = 0]
    /\ left' = left
    /\ LeaveNodeOp(t, self[t])

\* Node::insulate, `self.routes.lock()`
InsulateLock(t) ==
    /\ pc[t] = "su_lock"
    /\ rlock[self[t]] = 0
    /\ rlock' = [rlock EXCEPT ![self[t]] = t]
    /\ pc' = [pc EXCEPT ![t] = "su_try"]
    /\ UNCHANGED <<procs, cells, left, right, value, nalloc, locals, hist, crash>>

\* InsulateTry without the left guard: the left neighbour's right is
\* written without taking the neighbour's routes mutex
InsulateTryNoLeftGuard(t) ==
    /\ pc[t] = "su_try"
    /\ LET s == self[t]
           l == left[s]
       IN  /\ right' = IF l = Nil THEN right ELSE [right EXCEPT ![l] = right[s]]
           /\ rt' = [rt EXCEPT ![t] = right[s]]
           /\ pc' = [pc EXCEPT ![t] = IF right[s] = Nil THEN "su_rel_self"
                                                         ELSE "su_lock_right"]
    /\ UNCHANGED <<procs, cells, left, rlock, value, nalloc, op, self, lf, mid, ret, hist,
                   crash>>

\* Node::insulate, left_guard: try_lock!(left.routes) and
\* `left_routes.right = self_routes.right.clone()`, then the test of
\* self's right
InsulateTry(t) ==
    /\ pc[t] = "su_try"
    /\ LET s == self[t]
           l == left[s]
           next == IF right[s] = Nil
                   THEN (IF l = Nil THEN "su_rel_self" ELSE "su_rel_left")
                   ELSE "su_lock_right"
       IN  IF l # Nil /\ rlock[l] = Poisoned
           THEN Panic(t)
           ELSE /\ IF l = Nil
                   THEN /\ pc' = [pc EXCEPT ![t] = next]
                        /\ rt' = [rt EXCEPT ![t] = right[s]]
                        /\ UNCHANGED <<right, rlock, lf>>
                   ELSE IF rlock[l] = 0
                   THEN /\ right' = [right EXCEPT ![l] = right[s]]
                        /\ rlock' = [rlock EXCEPT ![l] = t]
                        /\ lf' = [lf EXCEPT ![t] = l]
                        /\ rt' = [rt EXCEPT ![t] = right[s]]
                        /\ pc' = [pc EXCEPT ![t] = next]
                   ELSE /\ rlock' = [rlock EXCEPT ![s] = 0]
                        /\ pc' = [pc EXCEPT ![t] = "su_lock"]
                        /\ UNCHANGED <<right, lf, rt>>
                /\ UNCHANGED <<procs, cells, left, value, nalloc, op, self, mid, ret, hist,
                               crash>>

\* Node::insulate, `right.routes.lock()` (blocking, left_guard still held)
\* and `right_routes.left = self_routes.left.clone()`
InsulateLockRight(t) ==
    /\ pc[t] = "su_lock_right"
    /\ rlock[rt[t]] = 0
    /\ rlock' = [rlock EXCEPT ![rt[t]] = t]
    /\ left' = [left EXCEPT ![rt[t]] = left[self[t]]]
    /\ pc' = [pc EXCEPT ![t] = "su_rel_right"]
    /\ UNCHANGED <<procs, cells, right, value, nalloc, locals, hist, crash>>

\* Node::insulate, right_routes goes out of scope
InsulateRelRight(t) ==
    /\ pc[t] = "su_rel_right"
    /\ rlock' = [rlock EXCEPT ![rt[t]] = 0]
    /\ pc' = [pc EXCEPT ![t] = IF lf[t] = Nil THEN "su_rel_self" ELSE "su_rel_left"]
    /\ UNCHANGED <<procs, cells, left, right, value, nalloc, locals, hist, crash>>

\* Node::insulate, `drop(left_guard)`
InsulateRelLeft(t) ==
    /\ pc[t] = "su_rel_left"
    /\ rlock' = [rlock EXCEPT ![lf[t]] = 0]
    /\ pc' = [pc EXCEPT ![t] = "su_rel_self"]
    /\ UNCHANGED <<procs, cells, left, right, value, nalloc, locals, hist, crash>>

\* InsulateRelSelf without the take()s: self keeps both neighbours
InsulateRelSelfKeepsRoutes(t) ==
    /\ pc[t] = "su_rel_self"
    /\ rlock' = [rlock EXCEPT ![self[t]] = 0]
    /\ UNCHANGED <<left, right>>
    /\ LeaveNodeOp(t, self[t])

\* Node::insulate, `break (&self.value, left.take(), right.take())`
InsulateRelSelf(t) ==
    /\ pc[t] = "su_rel_self"
    /\ left' = [left EXCEPT ![self[t]] = Nil]
    /\ right' = [right EXCEPT ![self[t]] = Nil]
    /\ rlock' = [rlock EXCEPT ![self[t]] = 0]
    /\ LeaveNodeOp(t, self[t])

\* ------------------------------------------------------------- list.rs
\* LinkedList::push_front, `self.head.lock()` and the test of the cell:
\* a head node: insert_left on it; none: go on to try_lock!(self.tail)
PushFrontLock(t) ==
    /\ pc[t] = "pf_lock"
    /\ hlock = 0
    /\ hlock' = t
    /\ IF head # Nil
       THEN /\ self' = [self EXCEPT ![t] = head]
            /\ pc' = [pc EXCEPT ![t] = "il_lock"]
       ELSE /\ self' = self
            /\ pc' = [pc EXCEPT ![t] = "pf_try"]
    /\ UNCHANGED <<procs, head, tail, tlock, chain, value, nalloc, op, lf, rt, mid, ret,
                   hist, crash>>

\* PushFrontTry without the tail guard: the new node goes into both cells
\* with only the head cell locked
PushFrontTryNoTailGuard(t) ==
    /\ pc[t] = "pf_try"
    /\ head' = mid[t]
    /\ tail' = mid[t]
    /\ left' = [left EXCEPT ![mid[t]] = Nil]
    /\ right' = [right EXCEPT ![mid[t]] = Nil]
    /\ pc' = [pc EXCEPT ![t] = "pf_rel_head"]
    /\ UNCHANGED <<procs, hlock, tlock, rlock, value, nalloc, locals, hist, crash>>

\* PushFrontTry with the retry keeping the head guard: WouldBlock starts
\* the loop over without releasing the head cell
PushFrontTryKeepsHead(t) ==
    /\ pc[t] = "pf_try"
    /\ IF tlock = 0
       THEN /\ tlock' = t
            /\ head' = mid[t]
            /\ tail' = mid[t]
            /\ left' = [left EXCEPT ![mid[t]] = Nil]
            /\ right' = [right EXCEPT ![mid[t]] = Nil]
            /\ hlock' = hlock
            /\ pc' = [pc EXCEPT ![t] = "pf_rel_tail"]
       ELSE /\ pc' = [pc EXCEPT ![t] = "pf_lock"]
            /\ UNCHANGED <<head, tail, hlock, tlock, left, right>>
    /\ UNCHANGED <<procs, rlock, value, nalloc, locals, hist, crash>>

\* LinkedList::push_front on an empty list: try_lock!(self.tail); taken:
\* the new insulated node goes into both cells; WouldBlock: `continue`
\* drops the head guard and the loop starts over; poisoned: panic
PushFrontTry(t) ==
    /\ pc[t] = "pf_try"
    /\ IF tlock = Poisoned
       THEN Panic(t)
       ELSE /\ IF tlock = 0
               THEN /\ tlock' = t
                    /\ head' = mid[t]
                    /\ tail' = mid[t]
                    /\ left' = [left EXCEPT ![mid[t]] = Nil]
                    /\ right' = [right EXCEPT ![mid[t]] = Nil]
                    /\ hlock' = hlock
                    /\ pc' = [pc EXCEPT ![t] = "pf_rel_tail"]
               ELSE /\ hlock' = 0
                    /\ pc' = [pc EXCEPT ![t] = "pf_lock"]
                    /\ UNCHANGED <<head, tail, tlock, left, right>>
            /\ UNCHANGED <<procs, rlock, value, nalloc, locals, hist, crash>>

\* LinkedList::push_front on an empty list, the tail guard goes out of scope
PushFrontRelTail(t) ==
    /\ pc[t] = "pf_rel_tail"
    /\ tlock' = 0
    /\ pc' = [pc EXCEPT ![t] = "pf_rel_head"]
    /\ UNCHANGED <<procs, head, tail, hlock, chain, value, nalloc, locals, hist, crash>>

\* LinkedList::push_front on an empty list, `break node` drops the head guard
PushFrontRelHead(t) ==
    /\ pc[t] = "pf_rel_head"
    /\ hlock' = 0
    /\ Return(t, Nil, mid[t], value[mid[t]])
    /\ UNCHANGED <<procs, head, tail, tlock, chain, value, nalloc, crash>>

\* PushFrontRet without the store into the head cell
PushFrontRetStaleHead(t) ==
    /\ pc[t] = "pf_ret"
    /\ hlock' = 0
    /\ Return(t, Nil, mid[t], value[mid[t]])
    /\ UNCHANGED <<procs, head, tail, tlock, chain, value, nalloc, crash>>

\* LinkedList::push_front, `*head = head.insert_left(value); break head.clone()`
PushFrontRet(t) ==
    /\ pc[t] = "pf_ret"
    /\ head' = mid[t]
    /\ hlock' = 0
    /\ Return(t, Nil, mid[t], value[mid[t]])
    /\ UNCHANGED <<procs, tail, tlock, chain, value, nalloc, crash>>

\* LinkedList::push_back, `self.tail.lock()` and the test of the cell
PushBackLock(t) ==
    /\ pc[t] = "pb_lock"
    /\ tlock = 0
    /\ tlock' = t
    /\ IF tail # Nil
       THEN /\ self' = [self EXCEPT ![t] = tail]
            /\ pc' = [pc EXCEPT ![t] = "ir_lock"]
       ELSE /\ self' = self
            /\ pc' = [pc EXCEPT ![t] = "pb_lock_head"]
    /\ UNCHANGED <<procs, head, tail, hlock, chain, value, nalloc, op, lf, rt, mid, ret,
                   hist, crash>>

\* LinkedList::push_back on an empty list, `self.head.lock()` (blocking);
\* the new insulated node goes into both cells
PushBackLockHead(t) ==
    /\ pc[t] = "pb_lock_head"
    /\ hlock = 0
    /\ hlock' = t
    /\ head' = mid[t]
    /\ tail' = mid[t]
    /\ left' = [left EXCEPT ![mid[t]] = Nil]
    /\ right' = [right EXCEPT ![mid[t]] = Nil]
    /\ pc' = [pc EXCEPT ![t] = "pb_rel_head"]
    /\ UNCHANGED <<procs, tlock, rlock, value, nalloc, locals, hist, crash>>

\* LinkedList::push_back on an empty list, the head guard goes out of scope
PushBackRelHead(t) ==
    /\ pc[t] = "pb_rel_head"
    /\ hlock' = 0
    /\ pc' = [pc EXCEPT ![t] = "pb_rel_tail"]
    /\ UNCHANGED <<procs, head, tail, tlock, chain, value, nalloc, locals, hist, crash>>

\* LinkedList::push_back on an empty list, the tail guard goes out of scope
PushBackRelTail(t) ==
    /\ pc[t] = "pb_rel_tail"
    /\ tlock' = 0
    /\ Return(t, Nil, mid[t], value[mid[t]])
    /\ UNCHANGED <<procs, head, tail, hlock, chain, value, nalloc, crash>>

\* LinkedList::push_back, `*tail = tail.insert_right(value); tail.clone()`
PushBackRet(t) ==
    /\ pc[t] = "pb_ret"
    /\ tail' = mid[t]
    /\ tlock' = 0
    /\ Return(t, Nil, mid[t], value[mid[t]])
    /\ UNCHANGED <<procs, head, hlock, chain, value, nalloc, crash>>

\* LinkedList::pop_front, `self.tail.lock()`
PopFrontLockTail(t) ==
    /\ pc[t] = "po_lock_tail"
    /\ tlock = 0
    /\ tlock' = t
    /\ pc' = [pc EXCEPT ![t] = "po_lock_head"]
    /\ UNCHANGED <<procs, head, tail, hlock, chain, value, nalloc, locals, hist, crash>>

\* LinkedList::pop_front, `self.head.lock()` and `if *tail == *head`:
\* equal cells: take both (the value of the node that was in them is the
\* result, None if they were empty); unequal: go on to `drop(tail)`
PopFrontLockHead(t) ==
    /\ pc[t] = "po_lock_head"
    /\ hlock = 0
    /\ hlock' = t
    /\ IF tail = head
       THEN /\ head' = Nil
            /\ tail' = Nil
            /\ self' = [self EXCEPT ![t] = head]
            /\ ret' = [ret EXCEPT ![t] = IF head # Nil THEN value[head] ELSE None]
            /\ pc' = [pc EXCEPT ![t] = "po_rel_head"]
       ELSE /\ UNCHANGED <<head, tail, self, ret>>
            /\ pc' = [pc EXCEPT ![t] = "po_drop_tail"]
    /\ UNCHANGED <<procs, tlock, chain, value, nalloc, op, lf, rt, mid, hist, crash>>

\* LinkedList::pop_front, equal cells: the head guard goes out of scope
PopFrontRelHead(t) ==
    /\ pc[t] = "po_rel_head"
    /\ hlock' = 0
    /\ pc' = [pc EXCEPT ![t] = "po_rel_tail"]
    /\ UNCHANGED <<procs, head, tail, tlock, chain, value, nalloc, locals, hist, crash>>

\* LinkedList::pop_front, equal cells: the tail guard goes out of scope
PopFrontRelTail(t) ==
    /\ pc[t] = "po_rel_tail"
    /\ tlock' = 0
    /\ Return(t, Nil, self[t], ret[t])
    /\ UNCHANGED <<procs, head, tail, hlock, chain, value, nalloc, crash>>

\* LinkedList::pop_front, unequal cells: `drop(tail)` and
\* `head.as_mut().unwrap_unchecked()`: on a head node insulate_right runs;
\* on an empty head cell the unwrap is undefined behaviour
PopFrontDropTail(t) ==
    /\ pc[t] = "po_drop_tail"
    /\ tlock' = 0
    /\ IF head # Nil
       THEN /\ self' = [self EXCEPT ![t] = head]
            /\ pc' = [pc EXCEPT ![t] = "sr_lock"]
       ELSE /\ self' = self
            /\ pc' = [pc EXCEPT ![t] = "po_ub_head"]
    /\ UNCHANGED <<procs, head, tail, hlock, chain, value, nalloc, op, lf, rt, mid, ret,
                   hist, crash>>

\* what a build does with unwrap_unchecked on None: the debug build's
\* precondition check panics without unwinding; the release build goes on
\* with the bits of None
UnwrapOutcomes == {"panic", "release"}

\* the process is gone: no thread takes another step
Abort(how) ==
    /\ crash' = how
    /\ pc' = [t \in Threads |-> "dead"]
    /\ UNCHANGED <<procs, cells, chain, value, nalloc, locals, hist>>

\* LinkedList::pop_front, `head.as_mut().unwrap_unchecked()` on an empty
\* head cell: the debug build panics; the release build calls
\* insulate_right through the cell's None bits, whose routes pointer is
\* null, and the process dies of the memory fault
PopFrontUnwrapHead(t) ==
    /\ pc[t] = "po_ub_head"
    /\ \E how \in UnwrapOutcomes : Abort(IF how = "panic" THEN "panic" ELSE "fault")

\* LinkedList::pop_front, `*head = right.unwrap_unchecked(); value.into()`:
\* with a right neighbour it becomes the head; with none the unwrap is
\* undefined behaviour: the debug build panics, the release build stores
\* the bits of None into the head cell and returns
PopFrontRet(t) ==
    /\ pc[t] = "po_ret"
    /\ IF rt[t] # Nil
       THEN /\ head' = rt[t]
            /\ hlock' = 0
            /\ Return(t, Nil, self[t], value[self[t]])
            /\ UNCHANGED <<procs, tail, tlock, chain, value, nalloc, crash>>
       ELSE \E how \in UnwrapOutcomes :
              IF how = "panic"
              THEN Abort("panic")
              ELSE /\ head' = Nil
                   /\ hlock' = 0
                   /\ Return(t, Nil, self[t], value[self[t]])
                   /\ UNCHANGED <<procs, tail, tlock, chain, value, nalloc, crash>>

\* LinkedList::pop_back, `self.tail.lock()` and the test of the cell:
\* a tail node: insulate_left on it; none: the result is None
PopBackLock(t) ==
    /\ pc[t] = "pk_lock"
    /\ tlock = 0
    /\ tlock' = t
    /\ IF tail # Nil
       THEN /\ self' = [self EXCEPT ![t] = tail]
            /\ pc' = [pc EXCEPT ![t] = "sl_lock"]
       ELSE /\ self' = self
            /\ pc' = [pc EXCEPT ![t] = "pk_rel_tail"]
    /\ UNCHANGED <<procs, head, tail, hlock, chain, value, nalloc, op, lf, rt, mid, ret,
                   hist, crash>>

\* LinkedList::pop_back, after insulate_left: `if let Some(left) = left
\* { *tail = left }`; with no left neighbour the head cell is next
PopBackAfter(t) ==
    /\ pc[t] = "pk_after"
    /\ ret' = [ret EXCEPT ![t] = value[self[t]]]
    /\ IF lf[t] # Nil
       THEN /\ tail' = lf[t]
            /\ pc' = [pc EXCEPT ![t] = "pk_rel_tail"]
       ELSE /\ tail' = tail
            /\ pc' = [pc EXCEPT ![t] = "pk_take_head"]
    /\ UNCHANGED <<procs, head, hlock, tlock, chain, value, nalloc, op, self, lf, rt, mid,
                   hist, crash>>

\* LinkedList::pop_back, `self.head.lock().unwrap().take();`: the guard
\* lives for this statement only; the tail cell is not written
PopBackTakeHead(t) ==
    /\ pc[t] = "pk_take_head"
    /\ hlock = 0
    /\ head' = Nil
    /\ pc' = [pc EXCEPT ![t] = "pk_rel_tail"]
    /\ UNCHANGED <<procs, tail, hlock, tlock, chain, value, nalloc, locals, hist, crash>>

\* LinkedList::pop_back, the tail guard goes out of scope
PopBackRelTail(t) ==
    /\ pc[t] = "pk_rel_tail"
    /\ tlock' = 0
    /\ Return(t, Nil, self[t], ret[t])
    /\ UNCHANGED <<procs, head, tail, hlock, chain, value, nalloc, crash>>

\* ----------------------------------------------------------------- calls
PushFront(t) == \E v \in Values : CallNew(t, "push_front", Nil, v, "pf_lock")
PushBack(t) == \E v \in Values : CallNew(t, "push_back", Nil, v, "pb_lock")
PopFront(t) == CallOld(t, "pop_front", Nil, "po_lock_tail")
PopBack(t) == CallOld(t, "pop_back", Nil, "pk_lock")

\* the nodes a caller can hold a handle to: every node handed out, but
\* the node of an insert in progress only once a neighbour whose routes
\* mutex is free points at it (Node::left, Node::right)
Held ==
    {n \in 1 .. nalloc :
        (\E t \in Threads : mid[t] = n) =>
            (\E m \in Nodes : rlock[m] = 0 /\ (left[m] = n \/ right[m] = n))}
\* a caller holding a handle to node n calls a splice on it
InsertLeft(t) == \E n \in Held, v \in Values : CallNew(t, "insert_left", n, v, "il_lock")
InsertRight(t) == \E n \in Held, v \in Values : CallNew(t, "insert_right", n, v, "ir_lock")
InsulateLeft(t) == \E n \in Held : CallOld(t, "insulate_left", n, "sl_lock")
InsulateRight(t) == \E n \in Held : CallOld(t, "insulate_right", n, "sr_lock")
Insulate(t) == \E n \in Held : CallOld(t, "insulate", n, "su_lock")

NodeStep(t) ==
    \/ InsertLeftLock(t) \/ InsertLeftTry(t) \/ InsertLeftRelSelf(t)
    \/ InsertRightLock(t) \/ InsertRightRelSelf(t)
    \/ InsulateLeftLock(t) \/ InsulateLeftTry(t) \/ InsulateLeftRelLeft(t)
    \/ InsulateLeftRelSelf(t)
    \/ InsulateRightLock(t) \/ InsulateRightLockRight(t) \/ InsulateRightRelRight(t)
    \/ InsulateRightRelSelf(t)

Next ==
    \E t \in Threads :
        \/ PushFront(t) \/ PushBack(t) \/ PopFront(t) \/ PopBack(t)
        \/ PushFrontLock(t) \/ PushFrontTry(t) \/ PushFrontRelTail(t) \/ PushFrontRelHead(t)
        \/ PushFrontRet(t)
        \/ PushBackLock(t) \/ PushBackLockHead(t) \/ PushBackRelHead(t) \/ PushBackRelTail(t)
        \/ PushBackRet(t)
        \/ PopFrontLockTail(t) \/ PopFrontLockHead(t) \/ PopFrontRelHead(t)
        \/ PopFrontRelTail(t) \/ PopFrontDropTail(t) \/ PopFrontUnwrapHead(t)
        \/ PopFrontRet(t)
        \/ PopBackLock(t) \/ PopBackAfter(t) \/ PopBackTakeHead(t) \/ PopBackRelTail(t)
        \/ NodeStep(t)

\* every thread calls list operations on one list
Spec == Init /\ [][Next]_vars

\* one thread calls list operations on one list
SeqInit ==
    /\ InitCommon
    /\ procs = {1}
    /\ left = [n \in Nodes |-> Nil]
    /\ right = [n \in Nodes |-> Nil]
    /\ value = [n \in Nodes |-> None]
    /\ nalloc = 0

SeqSpec == SeqInit /\ [][Next]_vars

\* every thread calls splices on the nodes of one chain: the chain
\* 1, 2, .. InitLen as insert_right builds it from Node::new_insulated(1),
\* node n holding the value n as in the tests of node.rs
NodeInit ==
    /\ InitCommon
    /\ procs = Callers
    /\ left = [n \in Nodes |-> IF n \in 2 .. InitLen THEN n - 1 ELSE Nil]
    /\ right = [n \in Nodes |-> IF n \in 1 .. (InitLen - 1) THEN n + 1 ELSE Nil]
    /\ value = [n \in Nodes |-> IF n <= InitLen THEN n ELSE None]
    /\ nalloc = InitLen

NodeNext ==
    \E t \in Threads :
        \/ InsertLeft(t) \/ InsertRight(t)
        \/ InsulateLeft(t) \/ InsulateRight(t) \/ Insulate(t)
        \/ NodeStep(t)
        \/ InsertLeftRelLeft(t) \/ InsertRightLockRight(t) \/ InsertRightRelRight(t)
        \/ InsulateLock(t) \/ InsulateTry(t) \/ InsulateLockRight(t)
        \/ InsulateRelRight(t) \/ InsulateRelLeft(t) \/ InsulateRelSelf(t)

NodeSpec == NodeInit /\ [][NodeNext]_vars

\* node n is being detached by insulate, or has been
Detached(n) ==
    \E t \in Threads :
        \/ op[t] = "insulate" /\ self[t] = n
        \/ \E i \in 1 .. Len(hist[t]) : hist[t][i].op = "insulate" /\ hist[t][i].arg = n
\* a caller detaches a node that no call has detached
InsulateOnce(t) == \E n \in Held : ~Detached(n) /\ CallOld(t, "insulate", n, "su_lock")

SpliceNext ==
    \E t \in Threads :
        \/ InsertLeft(t) \/ InsertRight(t) \/ InsulateOnce(t)
        \/ InsertLeftLock(t) \/ InsertLeftTry(t) \/ InsertLeftRelLeft(t)
        \/ InsertLeftRelSelf(t)
        \/ InsertRightLock(t) \/ InsertRightLockRight(t) \/ InsertRightRelRight(t)
        \/ InsertRightRelSelf(t)
        \/ InsulateLock(t) \/ InsulateTry(t) \/ InsulateLockRight(t)
        \/ InsulateRelRight(t) \/ InsulateRelLeft(t) \/ InsulateRelSelf(t)

\* every thread calls insert_left, insert_right and insulate on the nodes
\* of one chain, no node being detached twice
SpliceSpec == NodeInit /\ [][SpliceNext]_vars

\* the chain a test of node.rs builds before it spawns its threads: node
\* i holds vals[i]; ps are the threads the test spawns
TestInit(vals, ps) ==
    /\ InitCommon
    /\ procs = ps
    /\ left = [n \in Nodes |-> IF n \in 2 .. Len(vals) THEN n - 1 ELSE Nil]
    /\ right = [n \in Nodes |-> IF n \in 1 .. (Len(vals) - 1) THEN n + 1 ELSE Nil]
    /\ value = [n \in Nodes |-> IF n <= Len(vals) THEN vals[n] ELSE None]
    /\ nalloc = Len(vals)

\* the test a behaviour runs, read off the chain it built and the threads
\* it spawned
InInsertRightInsertLeft == value[2] = 4
InInsulateRightInsulateLeft == value[2] = 3 /\ procs = 1 .. 2
InInsertRightInsulateInsertLeft == value[2] = 3 /\ procs = 1 .. 3
InInsulateInsulate == value[2] = 2

\* tests::insert_right_insert_left: [1, 4]; tail.insert_left(3) in one
\* thread, head.insert_right(2) in another
InsertRightInsertLeft(t) ==
    /\ InInsertRightInsertLeft
    /\ \/ t = 1 /\ CallNew(t, "insert_right", 1, 2, "ir_lock")
       \/ t = 2 /\ CallNew(t, "insert_left", 2, 3, "il_lock")

\* tests::insulate_right_insulate_left: [1, 3, 5]; one.insulate_right()
\* in one thread, fiv.insulate_left() in another
InsulateRightInsulateLeft(t) ==
    /\ InInsulateRightInsulateLeft
    /\ \/ t = 1 /\ CallOld(t, "insulate_right", 1, "sr_lock")
       \/ t = 2 /\ CallOld(t, "insulate_left", 3, "sl_lock")

\* tests::insert_right_insulate_insert_left: [1, 3, 5];
\* one.insert_right(2), fiv.insert_left(4) and thr.insulate() in a thread
\* each
InsertRightInsulateInsertLeft(t) ==
    /\ InInsertRightInsulateInsertLeft
    /\ \/ t = 1 /\ CallNew(t, "insert_right", 1, 2, "ir_lock")
       \/ t = 2 /\ CallNew(t, "insert_left", 3, 4, "il_lock")
       \/ t = 3 /\ CallOld(t, "insulate", 2, "su_lock")

\* tests::insulate_insulate: [1, 2, 3, 4]; two.insulate() in one thread,
\* thr.insulate() in another
InsulateInsulate(t) ==
    /\ InInsulateInsulate
    /\ \/ t = 1 /\ CallOld(t, "insulate", 2, "su_lock")
       \/ t = 2 /\ CallOld(t, "insulate", 3, "su_lock")

\* the threads of a test make one call each
TestNext ==
    \E t \in Threads :
        \/ /\ hist[t] = <<>>
           /\ \/ InsertRightInsertLeft(t) \/ InsulateRightInsulateLeft(t)
              \/ InsertRightInsulateInsertLeft(t) \/ InsulateInsulate(t)
        \/ NodeStep(t)
        \/ InsertLeftRelLeft(t) \/ InsertRightLockRight(t) \/ InsertRightRelRight(t)
        \/ InsulateLock(t) \/ InsulateTry(t) \/ InsulateLockRight(t)
        \/ InsulateRelRight(t) \/ InsulateRelLeft(t) \/ InsulateRelSelf(t)

\* the chains and threads of the four multi-thread tests of node.rs
TestInits ==
    \/ TestInit(<<1, 4>>, 1 .. 2)
    \/ TestInit(<<1, 3, 5>>, 1 .. 2)
    \/ TestInit(<<1, 3, 5>>, 1 .. 3)
    \/ TestInit(<<1, 2, 3, 4>>, 1 .. 2)

TestSpec == TestInits /\ [][TestNext]_vars

\* LinkedList::head, `self.head.lock().unwrap().clone()`: the guard lives
\* for this statement only
HeadLock(t) ==
    /\ pc[t] = "hd_lock"
    /\ hlock = 0
    /\ Return(t, Nil, head, IF head # Nil THEN value[head] ELSE None)
    /\ UNCHANGED <<procs, cells, chain, value, nalloc, crash>>

\* LinkedList::tail, `self.tail.lock().unwrap().clone()`
TailLock(t) ==
    /\ pc[t] = "tl_lock"
    /\ tlock = 0
    /\ Return(t, Nil, tail, IF tail # Nil THEN value[tail] ELSE None)
    /\ UNCHANGED <<procs, cells, chain, value, nalloc, crash>>

GetHead(t) == CallOld(t, "head", Nil, "hd_lock")
GetTail(t) == CallOld(t, "tail", Nil, "tl_lock")

ListNext ==
    \/ Next
    \/ \E t \in Threads : GetHead(t) \/ GetTail(t) \/ HeadLock(t) \/ TailLock(t)

\* every thread calls list operations, head() and tail() on one list
ListSpec == Init /\ [][ListNext]_vars

\* ------------------------------------------------------------ observers
\* NodeIterator::next from node n: the nodes met walking right; a walk
\* that does not end within the nodes there are is cut by the marker -1
RECURSIVE WalkFrom(_, _)
WalkFrom(n, fuel) ==
    IF n = Nil THEN <<>>
    ELSE IF fuel = 0 THEN <<-1>>
    ELSE <<n>> \o WalkFrom(right[n], fuel - 1)
Walk(n) == WalkFrom(n, MaxNodes)

AllIdle == \A t \in Threads : pc[t] = "idle"
\* the nodes met walking left from node n
RECURSIVE WalkLeftFrom(_, _)
WalkLeftFrom(n, fuel) ==
    IF n = Nil THEN <<>>
    ELSE IF fuel = 0 THEN <<-1>>
    ELSE <<n>> \o WalkLeftFrom(left[n], fuel - 1)
WalkLeft(n) == WalkLeftFrom(n, MaxNodes)
\* the values held by the nodes of a walk
ValuesOf(w) == [i \in 1 .. Len(w) |-> IF w[i] \in Nodes THEN value[w[i]] ELSE -1]
\* node n has no left and no right neighbour (Node::is_insulate)
IsInsulate(n) == left[n] = Nil /\ right[n] = Nil
\* every spawned thread of a test has made its call and returned
TestDone == \A t \in procs : pc[t] = "idle" /\ Len(hist[t]) = 1


\* the reference double-ended queue: its contents after the calls of h
DequeApply(d, e) ==
    CASE e.op = "push_front" -> <<e.node>> \o d
      [] e.op = "push_back" -> Append(d, e.node)
      [] e.op = "pop_front" -> IF d = <<>> THEN d ELSE Tail(d)
      [] e.op = "pop_back" -> IF d = <<>> THEN d ELSE SubSeq(d, 1, Len(d) - 1)
      [] OTHER -> d
RECURSIVE Deque(_)
Deque(h) == IF h = <<>> THEN <<>> ELSE DequeApply(Deque(SubSeq(h, 1, Len(h) - 1)), h[Len(h)])
\* what the reference queue d answers to the call e
DequeRet(d, e) ==
    CASE e.op = "pop_front" -> IF d = <<>> THEN None ELSE value[d[1]]
      [] e.op = "pop_back" -> IF d = <<>> THEN None ELSE value[d[Len(d)]]
      [] OTHER -> e.ret

Front(q) == SubSeq(q, 1, Len(q) - 1)
\* the single thread's history, its last call and the queue before it
SeqAfter(o) == pc[1] = "idle" /\ hist[1] # <<>> /\ hist[1][Len(hist[1])].op = o
LastCall == hist[1][Len(hist[1])]
Before == Deque(Front(hist[1]))
\* the single thread is inside a call of o
SeqDuring(o) == op[1] = o

\* ------------------------------------------------------- claims, one thread
\* C1: after every operation of a single-threaded run of pushes and pops
\* on a list that starts empty, the head cell is present iff the tail cell
\* is present iff the list holds an element; the head node has no left and
\* the tail node no right neighbour; head equals tail iff exactly one
\* element is held.
C1_BoundaryCells ==
    pc[1] = "idle" =>
        LET d == Deque(hist[1])
        IN  /\ (head # Nil) <=> (tail # Nil)
            /\ (head # Nil) <=> (Len(d) >= 1)
            /\ (head # Nil) => (left[head] = Nil)
            /\ (tail # Nil) => (right[tail] = Nil)
            /\ (head # Nil /\ head = tail) <=> (Len(d) = 1)

\* C2: pop_back on a list holding n >= 1 values returns the last value;
\* afterwards the walk from head() yields the first n-1 values and tail()
\* is the node of the new last value, absent when n = 1.
C2_PopBack ==
    (SeqAfter("pop_back") /\ Before # <<>>) =>
        LET n == Len(Before)
        IN  /\ LastCall.ret = value[Before[n]]
            /\ Walk(head) = Front(Before)
            /\ tail = (IF n = 1 THEN Nil ELSE Before[n - 1])

\* C3: whenever the list holds no elements, pop_front and pop_back return
\* None, however often they are repeated, and leave both cells absent.
C3_PopEmpty ==
    /\ ((SeqAfter("pop_front") \/ SeqAfter("pop_back")) /\ Before = <<>>) =>
           (LastCall.ret = None /\ head = Nil /\ tail = Nil)
    /\ ((SeqDuring("pop_front") \/ SeqDuring("pop_back")) /\ Deque(hist[1]) = <<>>) =>
           (crash = "none")

\* C4: pop_front on a list holding n >= 1 values returns the first value;
\* afterwards the walk from head() yields the remaining n-1 values, the
\* new head node has no left neighbour, and for n = 1 both cells are
\* absent.
C4_PopFront ==
    /\ (SeqAfter("pop_front") /\ Before # <<>>) =>
           /\ LastCall.ret = value[Before[1]]
           /\ Walk(head) = Tail(Before)
           /\ (head # Nil) => (left[head] = Nil)
           /\ (Len(Before) = 1) => (head = Nil /\ tail = Nil)
    /\ (SeqDuring("pop_front") /\ Deque(hist[1]) # <<>>) => (crash = "none")

\* the calls of h are all pushes
OnlyPushes(h) == \A i \in 1 .. Len(h) : h[i].op \in {"push_front", "push_back"}
\* the node of the latest call of o in h, or of the first call if there
\* is none
LatestOr1st(h, o) ==
    IF \E i \in 1 .. Len(h) : h[i].op = o
    THEN h[CHOOSE i \in 1 .. Len(h) :
             h[i].op = o /\ \A j \in (i + 1) .. Len(h) : h[j].op # o].node
    ELSE h[1].node

\* C5: after a single-threaded sequence of push_front and push_back calls
\* on an empty list, the walk from head() is the reference queue given the
\* same calls, head() is the node of the latest push_front and tail() the
\* node of the latest push_back (of the first push if there was none).
C5_PushesRefineDeque ==
    (pc[1] = "idle" /\ hist[1] # <<>> /\ OnlyPushes(hist[1])) =>
        /\ Walk(head) = Deque(hist[1])
        /\ head = LatestOr1st(hist[1], "push_front")
        /\ tail = LatestOr1st(hist[1], "push_back")
        /\ \A i \in 1 .. Len(hist[1]) : value[hist[1][i].node] = hist[1][i].ret

C5_Witness ==
    /\ pc[1] = "idle" /\ Len(hist[1]) = 3 /\ OnlyPushes(hist[1])
    /\ hist[1][1].op = "push_back" /\ hist[1][2].op = "push_front"
    /\ hist[1][3].op = "push_back"
    /\ Walk(head) = <<2, 1, 3>>

\* ---------------------------------------------------- claims, many threads
\* the routes mutexes of a and b are both free
BothFree(a, b) == rlock[a] = 0 /\ rlock[b] = 0
\* a's right is b iff b's left is a
Linked(a, b) == (right[a] = b) <=> (left[b] = a)

\* C6: under any interleaving of concurrent list operations, at every
\* instant and for every pair of nodes A, B whose routes mutexes are both
\* free, A's right is B iff B's left is A.
C6_LinksSymmetric ==
    \A a \in Nodes, b \in Nodes : BothFree(a, b) => Linked(a, b)

\* a link being rewritten under a held routes mutex while every thread is
\* inside a list operation
C6_Witness ==
    /\ \A t \in procs : pc[t] \notin {"idle", "dead"}
    /\ \E a \in Nodes, b \in Nodes : ~Linked(a, b) /\ ~BothFree(a, b)

\* C8: under any interleaving of concurrent list operations, when
\* pop_front takes the branch of unequal cells the head cell holds a node,
\* and that node has a right neighbour when it is detached: neither
\* unchecked unwrap of pop_front meets None.
C8_UnwrapsNeverNone ==
    \A t \in Threads :
        /\ (pc[t] = "po_drop_tail") => (head # Nil)
        /\ (pc[t] = "po_ret") => (rt[t] # Nil)

\* the calls of all threads can be put in one order, each thread's calls
\* in its own order, in which a reference queue that starts as d answers
\* every pop as the list did and ends with the contents walked from
\* head(), head() and tail() being its first and last node; done[t] is
\* the number of calls of thread t already placed
RECURSIVE Linearizes(_, _)
Linearizes(done, d) ==
    IF \A t \in Threads : done[t] = Len(hist[t])
    THEN /\ Walk(head) = d
         /\ head = (IF d = <<>> THEN Nil ELSE d[1])
         /\ tail = (IF d = <<>> THEN Nil ELSE d[Len(d)])
    ELSE \E t \in Threads :
            /\ done[t] < Len(hist[t])
            /\ LET e == hist[t][done[t] + 1]
               IN  /\ DequeRet(d, e) = e.ret
                   /\ Linearizes([done EXCEPT ![t] = @ + 1], DequeApply(d, e))

\* C9: the calls of any bounded set of threads on one list have a
\* sequential order, consistent with each thread's program order, in which
\* a reference queue gives every pop the same value and ends with the
\* same contents, head and tail.
C9_Linearizable ==
    AllIdle => Linearizes([t \in Threads |-> 0], <<>>)

\* ------------------------------------------------- claims, node splices
\* C7: once all operations of any run of the five splices, each called
\* on an arbitrary node of a chain, have returned, the chain is symmetric:
\* for all nodes A, B, A's right is B iff B's left is A.
C7_SplicesKeepSymmetry ==
    AllIdle => \A a \in Nodes, b \in Nodes : Linked(a, b)

\* the mutex a thread is blocked on: <<"routes", n>>, <<"head", 0>> or
\* <<"tail", 0>>; <<"none", 0>> when its next step is no blocking lock()
NoMutex == <<"none", 0>>
WaitsOn(t) ==
    CASE pc[t] \in {"il_lock", "ir_lock", "sl_lock", "sr_lock", "su_lock"} ->
             <<"routes", self[t]>>
      [] pc[t] \in {"ir_lock_right", "sr_lock_right", "su_lock_right"} ->
             <<"routes", rt[t]>>
      [] pc[t] \in {"pf_lock", "pb_lock_head", "po_lock_head", "pk_take_head", "hd_lock"} ->
             <<"head", 0>>
      [] pc[t] \in {"pb_lock", "po_lock_tail", "pk_lock", "tl_lock"} -> <<"tail", 0>>
      [] OTHER -> NoMutex
Owner(m) ==
    CASE m[1] = "head" -> hlock
      [] m[1] = "tail" -> tlock
      [] m[1] = "routes" -> rlock[m[2]]
      [] OTHER -> 0
\* t is blocked on a mutex that u holds
WaitsFor(t, u) == WaitsOn(t) # NoMutex /\ Owner(WaitsOn(t)) = u
\* a set of threads each blocked on a mutex held by a thread of the set
CircularWait == \E S \in (SUBSET Threads) \ {{}} : \A t \in S : \E u \in S : WaitsFor(t, u)

\* a thread whose try_lock of a left neighbour failed
TryFailed(t) ==
    /\ pc[t] \in {"il_try", "sl_try", "su_try"}
    /\ pc'[t] \in {"il_lock", "sl_lock", "su_lock"}
\* a thread that takes the routes mutex of the node that is left of the
\* node it operates on
TakesLeft(t) ==
    /\ self[t] # Nil /\ left[self[t]] # Nil
    /\ rlock[left[self[t]]] # t /\ rlock'[left[self[t]]] = t
HoldsNone(t) == \A n \in Nodes : rlock[n] # t

\* C10: no reachable state of concurrent splices on overlapping nodes has
\* a circular wait; a left neighbour's mutex is taken by try_lock only,
\* and a thread whose try_lock failed holds no routes mutex when it
\* starts over.
C10_NoSpliceDeadlock ==
    /\ [](~CircularWait)
    /\ [][\A t \in Threads :
            /\ TryFailed(t) => HoldsNone(t)'
            /\ TakesLeft(t) => pc[t] \in {"il_try", "sl_try", "su_try"}]_vars

\* t holds a node and is blocked on its right neighbour, held by u, while
\* u is about to try_lock its left neighbour, which t holds
C10_Witness ==
    \E t \in Threads, u \in Threads :
        /\ t # u
        /\ pc[t] \in {"ir_lock_right", "sr_lock_right", "su_lock_right"}
        /\ rlock[rt[t]] = u
        /\ pc[u] \in {"il_try", "sl_try", "su_try"}
        /\ left[self[u]] # Nil
        /\ rlock[left[self[u]]] = t

\* ------------------------------------------------ claims, list deadlock
\* a thread that holds the head cell takes the tail cell
TakesTailUnderHead(t) == hlock = t /\ tlock # t /\ tlock' = t
\* a thread that holds the tail cell takes the head cell
TakesHeadUnderTail(t) == tlock = t /\ hlock # t /\ hlock' = t
\* push_front's try_lock of the tail cell failed
TailTryFailed(t) == pc[t] = "pf_try" /\ pc'[t] = "pf_lock"

\* C11: no reachable state of threads running push_front, push_back,
\* pop_front, pop_back, head() and tail() on one list has a set of threads
\* each blocked on a cell or routes mutex held by a thread of the set;
\* the tail cell is taken under the head cell by push_front's try_lock
\* only, which gives the head cell up when it fails, and the head cell is
\* taken under the tail cell by push_back and pop_front only (pop_back
\* takes and gives it up in one statement).
C11_NoListDeadlock ==
    /\ [](~CircularWait)
    /\ [][\A t \in Threads :
            /\ TakesTailUnderHead(t) => pc[t] = "pf_try"
            /\ TailTryFailed(t) => hlock' = 0
            /\ TakesHeadUnderTail(t) => pc[t] \in {"pb_lock_head", "po_lock_head"}]_vars

\* on an empty list t holds the head cell and is about to try the tail
\* cell, which u holds while blocked on the head cell
C11_Witness ==
    \E t \in Threads, u \in Threads :
        /\ pc[t] = "pf_try" /\ hlock = t
        /\ pc[u] \in {"pb_lock_head", "po_lock_head", "pk_take_head"} /\ tlock = u

\* ------------------------------------------- claims, splice linearizability
\* the chain 1, 2, .. InitLen the node-level runs start from
InitLinks ==
    [l |-> [n \in Nodes |-> IF n \in 2 .. InitLen THEN n - 1 ELSE Nil],
     r |-> [n \in Nodes |-> IF n \in 1 .. (InitLen - 1) THEN n + 1 ELSE Nil]]

\* the links k after the splice e (called on e.arg, the node of an insert
\* being e.node) has run on them with no other splice running
SeqSplice(k, e) ==
    LET s == e.arg
        m == e.node
        a == k.l[s]
        b == k.r[s]
    IN  CASE e.op = "insert_left" ->
               IF a = Nil
               THEN [l |-> [k.l EXCEPT ![s] = m, ![m] = Nil],
                     r |-> [k.r EXCEPT ![m] = s]]
               ELSE [l |-> [k.l EXCEPT ![s] = m, ![m] = a],
                     r |-> [k.r EXCEPT ![a] = m, ![m] = s]]
          [] e.op = "insert_right" ->
               IF b = Nil
               THEN [l |-> [k.l EXCEPT ![m] = s],
                     r |-> [k.r EXCEPT ![s] = m, ![m] = Nil]]
               ELSE [l |-> [k.l EXCEPT ![b] = m, ![m] = s],
                     r |-> [k.r EXCEPT ![s] = m, ![m] = b]]
          [] e.op = "insulate" ->
               LET r1 == IF a = Nil THEN k.r ELSE [k.r EXCEPT ![a] = b]
                   l1 == IF b = Nil THEN k.l ELSE [k.l EXCEPT ![b] = a]
               IN  [l |-> [l1 EXCEPT ![s] = Nil], r |-> [r1 EXCEPT ![s] = Nil]]
          [] e.op = "insulate_left" ->
               LET r1 == IF a = Nil THEN k.r ELSE [k.r EXCEPT ![a] = b]
               IN  [l |-> [k.l EXCEPT ![s] = Nil], r |-> r1]
          [] e.op = "insulate_right" ->
               LET l1 == IF b = Nil THEN k.l ELSE [k.l EXCEPT ![b] = a]
               IN  [l |-> l1, r |-> [k.r EXCEPT ![s] = Nil]]
          [] OTHER -> k

\* the returned splices of all threads can be put in one order, each
\* thread's splices in its own order, in which running them one after the
\* other from the links k ends with the links the nodes have now
RECURSIVE SplicesLinearize(_, _)
SplicesLinearize(done, k) ==
    IF \A t \in Threads : done[t] = Len(hist[t])
    THEN k.l = left /\ k.r = right
    ELSE \E t \in Threads :
            /\ done[t] < Len(hist[t])
            /\ SplicesLinearize([done EXCEPT ![t] = @ + 1],
                                SeqSplice(k, hist[t][done[t] + 1]))

\* C12: whenever all of a set of insert_left, insert_right and insulate
\* calls run concurrently on the nodes of a chain (each node detached at
\* most once) have returned, the left and right links of all nodes are
\* the links that running the same calls in some sequential order gives.
C12_SplicesLinearizable ==
    AllIdle => SplicesLinearize([t \in Threads |-> 0], InitLinks)

\* two threads have detached the adjacent interior nodes 2 and 3 of the
\* chain 1, 2, 3, 4: the chain 1, 4 is left and both nodes are insulated
C12_Witness ==
    /\ AllIdle
    /\ \E t \in Threads, u \in Threads :
          /\ t # u
          /\ \E i \in 1 .. Len(hist[t]) : hist[t][i].op = "insulate" /\ hist[t][i].arg = 2
          /\ \E j \in 1 .. Len(hist[u]) : hist[u][j].op = "insulate" /\ hist[u][j].arg = 3
    /\ Walk(1) = <<1, 4>> /\ left[4] = 1
    /\ \A n \in {2, 3} : left[n] = Nil /\ right[n] = Nil

\* ------------------------------------------------ claims, tests of node.rs
\* C13: from the chain [1, 4], insert_left(3) on node 4 run concurrently
\* with insert_right(2) on node 1 ends, under every interleaving, with the
\* chain 1, 2, 3, 4 walked right from node 1 and 4, 3, 2, 1 walked left
\* from node 4.
C13_InsertRightInsertLeft ==
    (InInsertRightInsertLeft /\ TestDone) =>
        /\ ValuesOf(Walk(1)) = <<1, 2, 3, 4>>
        /\ ValuesOf(WalkLeft(2)) = <<4, 3, 2, 1>>

\* both inserts have returned, insert_left having been called first (its
\* node is the older one) and linked last (node 1 points at the node of
\* insert_right)
C13_Witness ==
    /\ InInsertRightInsertLeft /\ TestDone
    /\ value[3] = 3 /\ value[4] = 2
    /\ Walk(1) = <<1, 4, 3, 2>>

\* C14: from the chain [1, 3, 5], insert_right(2) on node 1, insert_left(4)
\* on node 5 and insulate on node 3 run concurrently end, under every
\* interleaving, with the chain 1, 2, 4, 5 walked right from node 1 and
\* with node 3 insulated.
C14_InsertRightInsulateInsertLeft ==
    (InInsertRightInsulateInsertLeft /\ TestDone) =>
        /\ ValuesOf(Walk(1)) = <<1, 2, 4, 5>>
        /\ IsInsulate(2)

\* the three calls have returned, insert_left having been called before
\* insert_right
C14_Witness ==
    /\ InInsertRightInsulateInsertLeft /\ TestDone
    /\ value[4] = 4 /\ value[5] = 2
    /\ Walk(1) = <<1, 5, 4, 3>>

\* C15: from the chain [1, 3, 5], insulate_right on node 1 run
\* concurrently with insulate_left on node 5 ends, under every
\* interleaving, with node 3 insulated and with no node pointing at a
\* node that does not point back.
C15_InsulateRightInsulateLeft ==
    (InInsulateRightInsulateLeft /\ TestDone) =>
        /\ IsInsulate(2)
        /\ \A a \in Nodes, b \in Nodes : Linked(a, b)

\* both calls have returned and each handed back the node it cut off
C15_Witness ==
    /\ InInsulateRightInsulateLeft /\ TestDone
    /\ hist[1][1].op = "insulate_right" /\ hist[2][1].op = "insulate_left"
    /\ \A n \in 1 .. 3 : IsInsulate(n)

\* ------------------------------------------------------ claims, poisoning
\* `.lock().unwrap()` on a poisoned mutex panics
LockUnwrapPanics(t) ==
    /\ WaitsOn(t) # NoMutex
    /\ Owner(WaitsOn(t)) = Poisoned
    /\ Panic(t)

HoldsSome(t) == hlock = t \/ tlock = t \/ \E n \in Nodes : rlock[n] = t
\* a thread inside an operation terminates abnormally while it holds a
\* mutex
Dies(t) ==
    /\ pc[t] \notin {"idle", "dead", "panicked"}
    /\ HoldsSome(t)
    /\ Panic(t)

PoisonNext ==
    \/ TestNext
    \/ \E t \in Threads : Dies(t) \/ LockUnwrapPanics(t)

\* the multi-thread tests of node.rs, where a thread may die while it
\* holds a mutex
PoisonSpec == TestInits /\ [][PoisonNext]_vars

\* the mutex the next step of t acquires, by lock() or by try_lock()
Target(t) ==
    CASE pc[t] \in {"il_try", "sl_try", "su_try"} ->
             IF left[self[t]] # Nil THEN <<"routes", left[self[t]]>> ELSE NoMutex
      [] pc[t] = "pf_try" -> <<"tail", 0>>
      [] OTHER -> WaitsOn(t)
\* t takes a step that acquires a poisoned mutex
AcquiresPoisoned(t) ==
    /\ pc'[t] # pc[t]
    /\ Target(t) # NoMutex
    /\ Owner(Target(t)) = Poisoned

\* C16: once a thread has died holding a routes or cell mutex, every
\* operation that goes on to acquire that mutex, by lock() or by
\* try_lock(), ends in a panic of its caller: none ignores the poison and
\* none starts its loop over on it.
C16_PoisonSurfaced ==
    [][\A t \in Threads : AcquiresPoisoned(t) => pc'[t] = "panicked"]_vars

\* ------------------------------------------------------- claims, progress
\* a step of thread t inside a list operation it has called
ListStep(t) ==
    \/ PushFrontLock(t) \/ PushFrontTry(t) \/ PushFrontRelTail(t) \/ PushFrontRelHead(t)
    \/ PushFrontRet(t)
    \/ PushBackLock(t) \/ PushBackLockHead(t) \/ PushBackRelHead(t) \/ PushBackRelTail(t)
    \/ PushBackRet(t)
    \/ PopFrontLockTail(t) \/ PopFrontLockHead(t) \/ PopFrontRelHead(t)
    \/ PopFrontRelTail(t) \/ PopFrontDropTail(t) \/ PopFrontUnwrapHead(t)
    \/ PopFrontRet(t)
    \/ PopBackLock(t) \/ PopBackAfter(t) \/ PopBackTakeHead(t) \/ PopBackRelTail(t)
    \/ NodeStep(t)

\* every thread calls list operations on one list; a thread that is able
\* to take a step again and again takes one
FairSpec == Spec /\ \A t \in Threads : SF_vars(ListStep(t))

\* C17: with finitely many operations called by a bounded set of threads
\* and a scheduler under which every thread that is able to take a step
\* eventually takes one, every call eventually returns.
C17_EveryCallReturns ==
    \A t \in Threads : (op[t] # "none") ~> (op[t] = "none")

\* ------------------------------------------------ claims, concurrent pushes
\* LinkedList::new, every thread there is calling
PushInit ==
    /\ InitCommon
    /\ procs = Threads
    /\ left = [n \in Nodes |-> Nil]
    /\ right = [n \in Nodes |-> Nil]
    /\ value = [n \in Nodes |-> None]
    /\ nalloc = 0

PushNext ==
    \E t \in Threads :
        \/ PushFront(t) \/ PushBack(t)
        \/ PushFrontLock(t) \/ PushFrontTry(t) \/ PushFrontRelTail(t) \/ PushFrontRelHead(t)
        \/ PushFrontRet(t)
        \/ PushBackLock(t) \/ PushBackLockHead(t) \/ PushBackRelHead(t) \/ PushBackRelTail(t)
        \/ PushBackRet(t)
        \/ InsertLeftLock(t) \/ InsertLeftTry(t) \/ InsertLeftRelSelf(t)
        \/ InsertRightLock(t) \/ InsertRightRelSelf(t)

\* every thread calls push_front and push_back on one list
PushSpec == PushInit /\ [][PushNext]_vars

\* the nodes of a walk, as a set
NodesOf(w) == {w[i] : i \in 1 .. Len(w)}

\* C18: once all of any concurrent push_front and push_back calls on one
\* list have returned (among them push_front calls racing each other on a
\* non-empty list and a push_front racing a push_back on an empty list),
\* every pushed node is in the chain exactly once, the head cell holds
\* the leftmost and the tail cell the rightmost node of the chain, and
\* the chain is that of some sequential order of the calls (for the race
\* on the empty list: the node of push_front, then the node of
\* push_back).
C18_PushesKeepCells ==
    (AllIdle /\ nalloc > 0) =>
        /\ NodesOf(Walk(head)) = 1 .. nalloc
        /\ Len(Walk(head)) = nalloc
        /\ left[head] = Nil /\ right[tail] = Nil
        /\ tail = Walk(head)[nalloc]
        /\ WalkLeft(tail)[nalloc] = head
        /\ Linearizes([t \in Threads |-> 0], <<>>)

\* push_back was called first and push_front second on the empty list,
\* by different threads; a third thread then pushed in front of both
C18_Witness ==
    /\ AllIdle
    /\ \E t \in Threads, u \in Threads, w \in Threads :
          /\ t # u /\ u # w /\ t # w
          /\ Len(hist[t]) = 1 /\ hist[t][1].op = "push_back" /\ hist[t][1].node = 1
          /\ Len(hist[u]) = 1 /\ hist[u][1].op = "push_front" /\ hist[u][1].node = 2
          /\ Len(hist[w]) = 1 /\ hist[w][1].op = "push_front" /\ hist[w][1].node = 3
    /\ Walk(head) = <<3, 2, 1>> /\ tail = 1

\* ------------------------------------------------ claims, popped and lost
\* the calls that have returned, of all threads
Events == UNION {{hist[t][i] : i \in 1 .. Len(hist[t])} : t \in Threads}
\* the pops by which node n's value was handed out: a thread and the
\* place of the call in its history
PopsOf(n) ==
    {<<t, i>> \in Threads \X (1 .. MaxOps) :
        /\ i <= Len(hist[t])
        /\ hist[t][i].op \in {"pop_front", "pop_back"}
        /\ hist[t][i].node = n /\ hist[t][i].ret # None}
\* the nodes of the pushes that have returned
Pushed == {e.node : e \in {x \in Events : x.op \in {"push_front", "push_back"}}}

\* C19: in any sequential or concurrent run of pushes and pops on one
\* list each pushed node's value is returned by at most one pop, and once
\* all calls have returned every pushed node that no pop returned is met
\* walking right from head().
C19_NoneTwiceNoneLost ==
    /\ \A n \in Nodes : Cardinality(PopsOf(n)) <= 1
    /\ AllIdle => \A n \in Pushed : PopsOf(n) = {} => n \in NodesOf(Walk(head))

====
